---- MODULE Spec2Model ----
(***************************************************************************)
(* Model of the quickstart resources: the MCP chat client (MCPClient and   *)
(* main) and the three get-colors-for-mood tool servers (static table,     *)
(* unclamped webhook proxy, clamped webhook proxy).                        *)
(*                                                                         *)
(* Strings are sequences of chunks (a chunk is a character or a word), so  *)
(* that concatenation is \o, and includes/endsWith are computed on chunks. *)
(* An optional value (null or a value) is a sequence of length 0 or 1.     *)
(***************************************************************************)
EXTENDS Integers, Sequences, FiniteSets, TLC

(***************************************************************************)
(* Bounds of the model.                                                    *)
(***************************************************************************)
\* user turns the chat loop runs before only 'quit' is read
MaxTurns == 3
\* largest count a tool is invoked with (the smallest is -MaxCount)
MaxCount == 6

(***************************************************************************)
(* Program constants.                                                      *)
(***************************************************************************)
maxHistoryLength == 10

SYSTEM_PROMPT == <<"You are a helpful assistant.">>

None == << >>
Some(x) == <<x>>

Min(a, b) == IF a <= b THEN a ELSE b
Max(a, b) == IF a >= b THEN a ELSE b

(***************************************************************************)
(* JavaScript built-ins the programs use.                                  *)
(***************************************************************************)
\* Array.prototype.slice(start, end) on a 1-based sequence: a negative index
\* counts from the end, and both are clamped to 0..length.
JsSlice(arr, start, end) ==
    LET len == Len(arr)
        k == IF start < 0 THEN Max(len + start, 0) ELSE Min(start, len)
        final == IF end < 0 THEN Max(len + end, 0) ELSE Min(end, len)
    IN SubSeq(arr, k + 1, final)

UpperCase == <<"A","B","C","D","E","F","G","H","I","J","K","L","M",
               "N","O","P","Q","R","S","T","U","V","W","X","Y","Z">>
LowerCase == <<"a","b","c","d","e","f","g","h","i","j","k","l","m",
               "n","o","p","q","r","s","t","u","v","w","x","y","z">>

\* a comparison that forgets to lower the case
ToLowerCaseMissing(s) == s

\* String.prototype.toLowerCase, character by character
ToLowerCase(s) ==
    [i \in DOMAIN s |->
        IF \E k \in DOMAIN UpperCase : UpperCase[k] = s[i]
        THEN LowerCase[CHOOSE k \in DOMAIN UpperCase : UpperCase[k] = s[i]]
        ELSE s[i]]

\* String.prototype.endsWith on chunks
EndsWith(s, suffix) ==
    /\ Len(s) >= Len(suffix)
    /\ SubSeq(s, Len(s) - Len(suffix) + 1, Len(s)) = suffix

\* String.prototype.includes on chunks
Includes(s, needle) ==
    \E i \in 0..(Len(s) - Len(needle)) : SubSeq(s, i + 1, i + Len(needle)) = needle

RECURSIVE Join(_, _)
\* Array.prototype.join
Join(list, sep) ==
    IF list = << >> THEN << >>
    ELSE IF Len(list) = 1 THEN Head(list)
    ELSE Head(list) \o sep \o Join(Tail(list), sep)

(***************************************************************************)
(* JSON.parse on a token sequence.  A token is a chunk of the text: a      *)
(* punctuation mark, a literal, a number or a quoted string.  Values are   *)
(* records tagged by "type"; an object holds scalar members.               *)
(***************************************************************************)
StringTokens ==
    ("\"success\"" :> <<"success">>) @@ ("\"message\"" :> <<"message">>)
    @@ ("\"mood\"" :> <<"mood">>) @@ ("\"count\"" :> <<"count">>)
    @@ ("\"happy\"" :> <<"happy">>)
    @@ ("\"Coral Red\"" :> <<"Coral Red">>)
    @@ ("\"server busy\"" :> <<"server busy">>)
    @@ ("\"The maximum color count is 2\"" :> <<"The ", "maximum color count", " is 2">>)
    @@ ("\"\"" :> << >>)
NumberTokens == ("0" :> 0) @@ ("1" :> 1) @@ ("2" :> 2) @@ ("5" :> 5)

Undefined == [type |-> "undefined"]
JsNull == [type |-> "null"]
JsBool(b) == [type |-> "boolean", bool |-> b]
JsNumber(n) == [type |-> "number", num |-> n]
JsString(s) == [type |-> "string", str |-> s]
JsObject(keys, vals) == [type |-> "object", keys |-> keys, vals |-> vals]

IsScalarToken(t) ==
    \/ t \in {"true", "false", "null"}
    \/ t \in DOMAIN NumberTokens
    \/ t \in DOMAIN StringTokens

ScalarValue(t) ==
    IF t = "true" THEN JsBool(TRUE)
    ELSE IF t = "false" THEN JsBool(FALSE)
    ELSE IF t = "null" THEN JsNull
    ELSE IF t \in DOMAIN NumberTokens THEN JsNumber(NumberTokens[t])
    ELSE JsString(StringTokens[t])

\* the members between the braces: key : scalar, separated by commas
IsMemberList(inner) ==
    \/ inner = << >>
    \/ /\ Len(inner) % 4 = 3
       /\ \A i \in 1..Len(inner) :
            CASE i % 4 = 1 -> inner[i] \in DOMAIN StringTokens
              [] i % 4 = 2 -> inner[i] = ":"
              [] i % 4 = 3 -> IsScalarToken(inner[i])
              [] OTHER -> inner[i] = ","

MemberCount(inner) == (Len(inner) + 1) \div 4

JSONParse(tokens) ==
    IF Len(tokens) = 1 /\ IsScalarToken(tokens[1])
    THEN [ok |-> TRUE, value |-> ScalarValue(tokens[1])]
    ELSE IF /\ Len(tokens) >= 2
            /\ tokens[1] = "{"
            /\ tokens[Len(tokens)] = "}"
            /\ IsMemberList(SubSeq(tokens, 2, Len(tokens) - 1))
    THEN LET inner == SubSeq(tokens, 2, Len(tokens) - 1)
             n == MemberCount(inner)
         IN [ok |-> TRUE,
             value |-> JsObject([i \in 1..n |-> StringTokens[inner[4 * i - 3]]],
                                [i \in 1..n |-> ScalarValue(inner[4 * i - 1])])]
    ELSE [ok |-> FALSE, value |-> Undefined]

\* property read  value.key  (of null: a TypeError; the last duplicate key wins)
ReadThrows(value) == value.type \in {"null", "undefined"}
Read(value, key) ==
    IF value.type = "object" /\ \E i \in DOMAIN value.keys : value.keys[i] = key
    THEN LET last == CHOOSE i \in DOMAIN value.keys :
                        /\ value.keys[i] = key
                        /\ \A j \in DOMAIN value.keys : value.keys[j] = key => j <= i
         IN value.vals[last]
    ELSE Undefined

\* ToBoolean
Truthy(value) ==
    CASE value.type = "boolean" -> value.bool
      [] value.type = "number" -> value.num # 0
      [] value.type = "string" -> value.str # << >>
      [] value.type = "object" -> TRUE
      [] OTHER -> FALSE

(***************************************************************************)
(* The chat client.                                                        *)
(***************************************************************************)
VARIABLES
    argv,                 \* process.argv
    pc,                   \* where main is
    conversationHistory,  \* MCPClient.conversationHistory
    tools,                \* MCPClient.tools
    transport,            \* MCPClient.transport: None or Some
    rlOpen,               \* the readline interface of chatLoop is open
    pending,              \* tool calls of the first response the for loop has still to take
    finalText,            \* processQuery's finalText
    output,               \* what the chat loop printed for the last turn
    log,                  \* console.log lines of main and connectToServer
    exitCode,             \* None while running, then Some(status)
    thrown,               \* an exception is propagating out of main's try block
    lastRequest,          \* the last completion request issued: None or Some
    preTrim,              \* the transcript as the last finished turn left it before trimming
    pushed,               \* messages ever pushed (the serial number of the next one)
    nextCallId,           \* tool call ids the completion service has handed out
    turns,                \* turns begun
    reqCount,             \* completion requests issued in this turn
    toolCount,            \* Tool Host invocations in this turn
    named,                \* tool calls the first response of this turn named
    reqTotal,             \* completion requests issued in the session
    toolTotal,            \* Tool Host invocations in the session
    rlCloseCount,         \* calls of rl.close()
    mcpCloseCount         \* calls of mcp.close()

VARIABLES
    variant,              \* which get-colors-for-mood server runs
    tpc,                  \* where the tool call is: idle, fetching, done, rejected
    request,              \* the arguments of the tool call: None or Some
    outbound,             \* the body of the webhook request sent: None or Some
    reply,                \* what the webhook answered: None or Some
    outcome               \* how the handler ended: None or Some

toolVars == <<variant, tpc, request, outbound, reply, outcome>>

clientVars == <<argv, pc, conversationHistory, tools, transport, rlOpen, pending,
                finalText, output, log, exitCode, thrown, lastRequest, preTrim, pushed, nextCallId, turns, reqCount, toolCount, named,
                reqTotal, toolTotal, rlCloseCount, mcpCloseCount>>


\* what the prompt may read: 'quit' in several spellings, and queries
QuitLines == {<<"q","u","i","t">>, <<"Q","U","I","T">>, <<"Q","u","i","T">>}
QueryLines == {<<"Q","u","i","t","s">>}
Lines == QuitLines \cup QueryLines

\* the script paths main may be started with (argv[2]), and no path at all
ScriptPaths == {<<"server", ".js">>, <<"server", ".py">>, <<"server", ".txt">>,
                <<"server", ".js", ".bak">>}
Argvs == {<<"node", "build/index.js">>}
            \cup {<<"node", "build/index.js", p>> : p \in ScriptPaths}

\* what the completion service and the Tool Host may answer
Contents == {None, Some(<< >>), Some(<<"answer">>)}
\* how many tool calls a completion response may name
ToolCallCounts == {0, 1, 2}
ArgStrings == {<<"{", "\"mood\"", ":", "\"happy\"", ",", "\"count\"", ":", "2", "}">>,
               <<"{", "\"mood\"", ":">>}
ToolLists == {<<"get-colors-for-mood">>}
ToolResults == {<<"Colors for happy mood:\n", "Coral Red (#FF6B6B)">>}

SystemMessage ==
    [role |-> "system", content |-> SYSTEM_PROMPT, tool_calls |-> << >>,
     tool_call_id |-> None, seq |-> 1]
UserMessage(query, n) ==
    [role |-> "user", content |-> query, tool_calls |-> << >>,
     tool_call_id |-> None, seq |-> n]
AssistantMessage(content, n) ==
    [role |-> "assistant", content |-> content, tool_calls |-> << >>,
     tool_call_id |-> None, seq |-> n]
ToolCallMessage(toolCall, n) ==
    [role |-> "assistant", content |-> << >>, tool_calls |-> <<toolCall>>,
     tool_call_id |-> None, seq |-> n]
ToolResultMessage(toolCall, content, n) ==
    [role |-> "tool", content |-> content, tool_calls |-> << >>,
     tool_call_id |-> Some(toolCall.id), seq |-> n]

\* the tool calls of a response: fresh ids, in order
ToolCalls(args, firstId) ==
    [i \in DOMAIN args |->
        [id |-> firstId + i - 1, name |-> "get-colors-for-mood", arguments |-> args[i]]]

CallingToolText(toolCall) ==
    <<"[Calling tool ", toolCall.name, " with args ">> \o toolCall.arguments \o <<"]">>

\* the first completion request of a turn: the transcript and the tool list
FirstRequest(messages) == [messages |-> messages, tools |-> Some(tools)]

\* a follow-up request that resends the tool list
NextRequestWithTools(messages) == [messages |-> messages, tools |-> Some(tools)]

\* the completion request after a tool call: the transcript alone
NextRequest(messages) == [messages |-> messages, tools |-> None]

\* a loop that stops after the first tool call
RestOfToolCallsDropped(calls) == << >>

\* the for loop over the tool calls goes on with the calls after this one
RestOfToolCalls(calls) == Tail(calls)

\* a trim that keeps the newest messages only, the system message not among them
trimWithoutSystemMessage(history) ==
    IF Len(history) > (maxHistoryLength * 2) + 1
    THEN JsSlice(history, -((maxHistoryLength * 2) + 1), Len(history))
    ELSE history

\* a trim that keeps one message too many
trimOffByOne(history) ==
    IF Len(history) > (maxHistoryLength * 2) + 1
    THEN <<history[1]>> \o JsSlice(history, -((maxHistoryLength * 2) + 1), Len(history))
    ELSE history

\* trimConversationHistory
trimConversationHistory(history) ==
    IF Len(history) > (maxHistoryLength * 2) + 1
    THEN LET systemMessage == history[1]
             recentMessages == JsSlice(history, -(maxHistoryLength * 2), Len(history))
         IN <<systemMessage>> \o recentMessages
    ELSE history

\* the exception leaves chatLoop through its finally (rl.close()) and reaches
\* main's finally
ThrowFromChatLoop ==
    /\ rlOpen' = FALSE
    /\ rlCloseCount' = rlCloseCount + 1
    /\ thrown' = TRUE
    /\ pc' = "cleanup"

ClientInit ==
    /\ argv \in Argvs
    /\ pc = "main"
    /\ conversationHistory = << >>
    /\ tools = << >>
    /\ transport = None
    /\ rlOpen = FALSE
    /\ pending = << >>
    /\ finalText = << >>
    /\ output = << >>
    /\ log = << >>
    /\ exitCode = None
    /\ thrown = FALSE
    /\ lastRequest = None
    /\ preTrim = << >>
    /\ pushed = 0
    /\ nextCallId = 1
    /\ turns = 0
    /\ reqCount = 0
    /\ toolCount = 0
    /\ named = 0
    /\ reqTotal = 0
    /\ toolTotal = 0
    /\ rlCloseCount = 0
    /\ mcpCloseCount = 0

\* main: no script path given: print the usage and return
MainUsage ==
    /\ pc = "main"
    /\ Len(argv) < 3
    /\ log' = Append(log, "Usage")
    /\ pc' = "exited"
    /\ exitCode' = Some(0)
    /\ UNCHANGED <<argv, named, conversationHistory, tools, transport, rlOpen, pending,
                   finalText, output, thrown, lastRequest, preTrim, pushed,
                   nextCallId, turns, reqCount, toolCount, reqTotal, toolTotal,
                   rlCloseCount, mcpCloseCount, toolVars>>

\* main: new MCPClient()
Construct ==
    /\ pc = "main"
    /\ Len(argv) >= 3
    /\ conversationHistory' = Append(conversationHistory, SystemMessage)
    /\ pushed' = pushed + 1
    /\ pc' = "connect"
    /\ UNCHANGED <<argv, named, tools, transport, rlOpen, pending, finalText, output, log,
                   exitCode, thrown, lastRequest, preTrim, nextCallId, turns,
                   reqCount, toolCount, reqTotal, toolTotal, rlCloseCount,
                   mcpCloseCount, toolVars>>

\* connectToServer(process.argv[2]); listTools answers or fails
ConnectToServer ==
    /\ pc = "connect"
    /\ LET serverScriptPath == argv[3]
           isJs == EndsWith(serverScriptPath, <<".js">>)
           isPy == EndsWith(serverScriptPath, <<".py">>)
       IN IF ~isJs /\ ~isPy
          THEN /\ log' = Append(log, "Failed to connect to MCP server")
               /\ thrown' = TRUE
               /\ pc' = "cleanup"
               /\ UNCHANGED <<tools, transport>>
          ELSE /\ transport' = Some(serverScriptPath)
               /\ \/ \E listed \in ToolLists :
                        /\ tools' = listed
                        /\ log' = Append(log, "Connected to server with tools")
                        /\ pc' = "chatLoop"
                        /\ UNCHANGED thrown
                  \/ /\ log' = Append(log, "Failed to connect to MCP server")
                     /\ thrown' = TRUE
                     /\ pc' = "cleanup"
                     /\ UNCHANGED tools
    /\ UNCHANGED <<argv, named, conversationHistory, rlOpen, pending, finalText, output,
                   exitCode, lastRequest, preTrim, pushed, nextCallId, turns,
                   reqCount, toolCount, reqTotal, toolTotal, rlCloseCount,
                   mcpCloseCount, toolVars>>

\* chatLoop: create the readline interface and print the banner
ChatLoopStart ==
    /\ pc = "chatLoop"
    /\ rlOpen' = TRUE
    /\ log' = log \o <<"MCP Client Started!", "Type your queries or 'quit' to exit.">>
    /\ pc' = "question"
    /\ UNCHANGED <<argv, named, conversationHistory, tools, transport, pending, finalText,
                   output, exitCode, thrown, lastRequest, preTrim, pushed,
                   nextCallId, turns, reqCount, toolCount, reqTotal, toolTotal,
                   rlCloseCount, mcpCloseCount, toolVars>>

\* chatLoop: a line is read.  'quit' breaks out of the loop through the finally;
\* any other line starts processQuery, up to its first completion request
ReadLine(message) ==
    /\ pc = "question"
    /\ IF ToLowerCase(message) = <<"q","u","i","t">>
       THEN /\ rlOpen' = FALSE
            /\ rlCloseCount' = rlCloseCount + 1
            /\ pc' = "cleanup"
            /\ UNCHANGED <<conversationHistory, pushed, lastRequest, reqCount,
                           toolCount, named, reqTotal, finalText, turns>>
       ELSE /\ turns < MaxTurns
            /\ turns' = turns + 1
            /\ conversationHistory' =
                    Append(conversationHistory, UserMessage(message, pushed + 1))
            /\ pushed' = pushed + 1
            /\ lastRequest' = Some(FirstRequest(conversationHistory'))
            /\ reqCount' = 1
            /\ toolCount' = 0
            /\ named' = 0
            /\ reqTotal' = reqTotal + 1
            /\ finalText' = << >>
            /\ pc' = "awaitRequest1"
            /\ UNCHANGED <<rlOpen, rlCloseCount>>
    /\ UNCHANGED <<argv, tools, transport, pending, output, log, exitCode, thrown,
                   preTrim, nextCallId, toolTotal, mcpCloseCount, toolVars>>

\* processQuery: the first completion answers with a text or none, naming
\* tool calls or none
Request1Return(content, args) ==
    /\ pc = "awaitRequest1"
    /\ IF content # None /\ content[1] # << >>
       THEN /\ finalText' = Append(finalText, content[1])
            /\ conversationHistory' =
                    Append(conversationHistory, AssistantMessage(content[1], pushed + 1))
            /\ pushed' = pushed + 1
       ELSE UNCHANGED <<finalText, conversationHistory, pushed>>
    /\ pending' = ToolCalls(args, nextCallId)
    /\ named' = Len(args)
    /\ nextCallId' = nextCallId + Len(args)
    /\ pc' = "loop"
    /\ UNCHANGED <<argv, tools, transport, rlOpen, output, log, exitCode, thrown,
                   lastRequest, preTrim, turns, reqCount, toolCount,
                   reqTotal, toolTotal, rlCloseCount, mcpCloseCount, toolVars>>

\* processQuery: a completion request throws
RequestThrows ==
    /\ pc \in {"awaitRequest1", "awaitRequest2"}
    /\ ThrowFromChatLoop
    /\ UNCHANGED <<argv, named, conversationHistory, tools, transport, pending, finalText,
                   output, log, exitCode, lastRequest, preTrim, pushed,
                   nextCallId, turns, reqCount, toolCount, reqTotal, toolTotal,
                   mcpCloseCount, toolVars>>

\* processQuery: the for loop takes the next tool call: parse its arguments and
\* call the tool
ToolCallInvoke ==
    /\ pc = "loop"
    /\ pending # << >>
    /\ LET toolCall == Head(pending)
       IN IF JSONParse(toolCall.arguments).ok
          THEN /\ toolCount' = toolCount + 1
               /\ toolTotal' = toolTotal + 1
               /\ pc' = "awaitTool"
               /\ UNCHANGED <<rlOpen, rlCloseCount, thrown>>
          ELSE /\ ThrowFromChatLoop
               /\ UNCHANGED <<toolCount, toolTotal>>
    /\ UNCHANGED <<argv, named, conversationHistory, tools, transport, pending, finalText,
                   output, log, exitCode, lastRequest, preTrim, pushed,
                   nextCallId, turns, reqCount, reqTotal, mcpCloseCount, toolVars>>

\* processQuery: the tool answers: record the call and its result, and issue
\* the next completion request, without tools
ToolCallReturn(result) ==
    /\ pc = "awaitTool"
    /\ LET toolCall == Head(pending)
       IN /\ finalText' = Append(finalText, CallingToolText(toolCall))
          /\ conversationHistory' =
                conversationHistory
                    \o <<ToolCallMessage(toolCall, pushed + 1),
                         ToolResultMessage(toolCall, result, pushed + 2)>>
    /\ pushed' = pushed + 2
    /\ lastRequest' = Some(NextRequest(conversationHistory'))
    /\ reqCount' = reqCount + 1
    /\ reqTotal' = reqTotal + 1
    /\ pc' = "awaitRequest2"
    /\ UNCHANGED <<argv, named, tools, transport, rlOpen, pending, output, log, exitCode,
                   thrown, preTrim, nextCallId, turns, toolCount, toolTotal,
                   rlCloseCount, mcpCloseCount, toolVars>>

\* processQuery: callTool throws
ToolCallThrows ==
    /\ pc = "awaitTool"
    /\ ThrowFromChatLoop
    /\ UNCHANGED <<argv, named, conversationHistory, tools, transport, pending, finalText,
                   output, log, exitCode, lastRequest, preTrim, pushed,
                   nextCallId, turns, reqCount, toolCount, reqTotal, toolTotal,
                   mcpCloseCount, toolVars>>

\* processQuery: the completion after a tool call answers; the loop goes on
Request2Return(content) ==
    /\ pc = "awaitRequest2"
    /\ IF content # None /\ content[1] # << >>
       THEN /\ finalText' = Append(finalText, content[1])
            /\ conversationHistory' =
                    Append(conversationHistory, AssistantMessage(content[1], pushed + 1))
            /\ pushed' = pushed + 1
       ELSE UNCHANGED <<finalText, conversationHistory, pushed>>
    /\ pending' = RestOfToolCalls(pending)
    /\ pc' = "loop"
    /\ UNCHANGED <<argv, named, tools, transport, rlOpen, output, log, exitCode, thrown,
                   lastRequest, preTrim, nextCallId, turns, reqCount,
                   toolCount, reqTotal, toolTotal, rlCloseCount, mcpCloseCount,
                   toolVars>>

\* processQuery: no tool call is left: trim, return the text; chatLoop prints it
EndTurn ==
    /\ pc = "loop"
    /\ pending = << >>
    /\ preTrim' = conversationHistory
    /\ conversationHistory' = trimConversationHistory(conversationHistory)
    /\ output' = <<"\n">> \o Join(finalText, <<"\n">>)
    /\ pc' = "question"
    /\ UNCHANGED <<argv, named, tools, transport, rlOpen, pending, finalText, log, exitCode,
                   thrown, lastRequest, pushed, nextCallId, turns, reqCount,
                   toolCount, reqTotal, toolTotal, rlCloseCount, mcpCloseCount,
                   toolVars>>

\* main's finally: cleanup() closes the connection, then process.exit(0)
Cleanup ==
    /\ pc = "cleanup"
    /\ mcpCloseCount' = mcpCloseCount + 1
    /\ exitCode' = Some(0)
    /\ pc' = "exited"
    /\ UNCHANGED <<argv, named, conversationHistory, tools, transport, rlOpen, pending,
                   finalText, output, log, thrown, lastRequest, preTrim, pushed,
                   nextCallId, turns, reqCount, toolCount, reqTotal, toolTotal,
                   rlCloseCount, toolVars>>

ClientNext ==
    \/ MainUsage
    \/ Construct
    \/ ConnectToServer
    \/ ChatLoopStart
    \/ \E message \in Lines : ReadLine(message)
    \/ \E content \in Contents, n \in ToolCallCounts :
            \E args \in [1..n -> ArgStrings] : Request1Return(content, args)
    \/ RequestThrows
    \/ ToolCallInvoke
    \/ \E result \in ToolResults : ToolCallReturn(result)
    \/ ToolCallThrows
    \/ \E content \in Contents : Request2Return(content)
    \/ EndTurn
    \/ Cleanup


(***************************************************************************)
(* The Tool Host: three servers registering get-colors-for-mood.           *)
(***************************************************************************)
Variants == {"static", "unclamped", "clamped"}

Moods == {<<"happy">>, <<"sad">>}
\* the count argument: absent, or an integer
Counts == {None} \cup {Some(c) : c \in (-MaxCount)..MaxCount}

\* what the webhook may answer: JSON of several shapes, and texts that are no JSON
Bodies ==
    {<<"{", "\"success\"", ":", "true", ",", "\"message\"", ":", "\"Coral Red\"", "}">>,
     <<"{", "\"success\"", ":", "false", ",", "\"message\"", ":",
       "\"The maximum color count is 2\"", "}">>,
     <<"{", "\"success\"", ":", "false", ",", "\"message\"", ":", "\"server busy\"", "}">>,
     <<"{", "\"success\"", ":", "false", "}">>,
     <<"{", "\"message\"", ":", "\"Coral Red\"", "}">>,
     <<"{", "\"success\"", ":", "true", "}">>,
     <<"{", "\"success\"", ":", "true", ",", "\"message\"", ":", "5", "}">>,
     <<"{", "\"success\"", ":", "true", ",", "\"message\"", ":", "\"\"", "}">>,
     <<"{", "}">>,
     <<"null">>,
     <<"5">>,
     <<"\"server busy\"">>,
     <<"<html>", "502 Bad Gateway", "</html>">>,
     <<"{", "\"success\"", ":", "true">>,
     <<"maximum color count", " exceeded">>,
     << >>}

\* the messages of the errors fetch may reject with
FetchErrors == {<<"request to webhook failed, reason: ", "ECONNREFUSED">>, << >>}

\* String(value), as a template literal and new Error(value) convert
ToStr(value) ==
    CASE value.type = "string" -> value.str
      [] value.type = "number" ->
            <<CHOOSE t \in DOMAIN NumberTokens : NumberTokens[t] = value.num>>
      [] value.type = "boolean" -> IF value.bool THEN <<"true">> ELSE <<"false">>
      [] value.type = "object" -> <<"[object Object]">>
      [] OTHER -> <<value.type>>

\* how a block of code ends
Return(result) == [kind |-> "return", result |-> result, message |-> << >>]
Throw(message) == [kind |-> "throw", result |-> << >>, message |-> message]

\* { content: [{ type: "text", text }] }
TextResult(text) == <<[type |-> "text", text |-> text]>>

\* the schemas: what the server lets through to the handler (None: refused)
StaticSchema(count) == count
UnclampedSchema(count) ==
    LET c == IF count = None THEN Some(1) ELSE count
    IN IF c[1] >= 1 THEN c ELSE None
ClampedSchemaWithoutMin(count) ==
    LET c == IF count = None THEN Some(1) ELSE count
    IN IF c[1] <= 2 THEN c ELSE None
ClampedSchema(count) ==
    LET c == IF count = None THEN Some(1) ELSE count
    IN IF c[1] >= 1 /\ c[1] <= 2 THEN c ELSE None
Schema(v, count) ==
    CASE v = "static" -> StaticSchema(count)
      [] v = "unclamped" -> UnclampedSchema(count)
      [] OTHER -> ClampedSchema(count)

moodColors ==
    <<[name |-> "Coral Red", hex |-> "#FF6B6B"],
      [name |-> "Ocean Turquoise", hex |-> "#4ECDC4"],
      [name |-> "Summer Sky Blue", hex |-> "#45B7D1"],
      [name |-> "Fresh Sage", hex |-> "#96CEB4"],
      [name |-> "Warm Sand", hex |-> "#FFEEAD"]>>

\* the static handler
StaticHandler(mood, count) ==
    LET numColors == Min(count, Len(moodColors))
        selectedColors == JsSlice(moodColors, 0, numColors)
        colorList == Join([i \in DOMAIN selectedColors |->
                              <<selectedColors[i].name, " (", selectedColors[i].hex, ")">>],
                          <<"\n">>)
        alertsText == <<"Colors for ">> \o mood \o <<" mood:\n">> \o colorList
    IN Return(TextResult(JsString(alertsText)))

\* the colorCount each remote handler sends
safeCount(count) == Min(count, 2)
ColorCount(v, count) == IF v = "clamped" THEN safeCount(count) ELSE count

\* getColorsForMood (unclamped), from the webhook's answer on: the try block
UnclampedTry(mood, fetched) ==
    IF fetched.kind = "throw" THEN fetched
    ELSE LET text == fetched.result
             parsed == JSONParse(text)
         IN IF ~parsed.ok
            THEN Return(TextResult(JsString(<<"Invalid response from color API: ">> \o text)))
            ELSE IF ReadThrows(parsed.value)
            THEN Throw(<<"Cannot read properties of ", parsed.value.type,
                         " (reading 'message')">>)
            ELSE Return(TextResult(Read(parsed.value, <<"message">>)))

\* getColorsForMood (unclamped): the try block and its catch
UnclampedHandler(mood, fetched) ==
    LET tried == UnclampedTry(mood, fetched)
    IN IF tried.kind = "throw"
       THEN Return(TextResult(JsString(IF tried.message # << >>
                                       THEN tried.message
                                       ELSE <<"Unknown error occurred">>)))
       ELSE tried

\* the clamped handler, from the webhook's answer on: the try block
ClampedTry(mood, fetched) ==
    IF fetched.kind = "throw" THEN fetched
    ELSE LET text == fetched.result
             parsed == JSONParse(text)
         IN IF ~parsed.ok
            THEN Throw(<<"Invalid response from color API: ">> \o text)
            ELSE LET data == parsed.value
                 IN IF ReadThrows(data)
                    THEN Throw(<<"Cannot read properties of ", data.type,
                                 " (reading 'success')">>)
                    ELSE IF ~Truthy(Read(data, <<"success">>))
                    THEN Throw(IF Truthy(Read(data, <<"message">>))
                               THEN ToStr(Read(data, <<"message">>))
                               ELSE <<"API request failed">>)
                    ELSE Return(TextResult(JsString(
                            <<"Colors for ">> \o mood \o <<" mood:\n">>
                                \o ToStr(Read(data, <<"message">>)))))

\* the clamped handler: the try block and its catch
ClampedHandler(mood, fetched) ==
    LET tried == ClampedTry(mood, fetched)
    IN IF tried.kind = "throw"
       THEN LET errorMessage ==
                    IF Includes(tried.message, <<"maximum color count">>)
                    THEN <<"Sorry, I can only provide up to 2 colors at a time. Please try again with a smaller number.">>
                    ELSE <<"Sorry, I couldn't get color suggestions at the moment. Please try again.">>
            IN Return(TextResult(JsString(errorMessage)))
       ELSE tried

ToolInit ==
    /\ variant \in Variants
    /\ tpc = "idle"
    /\ request = None
    /\ outbound = None
    /\ reply = None
    /\ outcome = None

\* a get-colors-for-mood call arrives: the schema refuses it, or the handler
\* runs: to its end (static), or up to the webhook request (remote)
ToolInvoke(mood, count) ==
    /\ tpc = "idle"
    /\ request' = Some([mood |-> mood, count |-> count])
    /\ reply' = None
    /\ LET accepted == Schema(variant, count)
       IN IF accepted = None
          THEN /\ tpc' = "rejected"
               /\ outbound' = None
               /\ outcome' = None
          ELSE IF variant = "static"
          THEN /\ tpc' = "done"
               /\ outbound' = None
               /\ outcome' = Some(StaticHandler(mood, accepted[1]))
          ELSE /\ tpc' = "fetching"
               /\ outbound' = Some([colorCount |-> ColorCount(variant, accepted[1]),
                                    mood |-> mood])
               /\ outcome' = None
    /\ UNCHANGED <<variant, clientVars>>

\* the webhook answers with a body
FetchReturns(body) ==
    /\ tpc = "fetching"
    /\ reply' = Some(Return(body))
    /\ outcome' = Some(IF variant = "unclamped"
                       THEN UnclampedHandler(request[1].mood, Return(body))
                       ELSE ClampedHandler(request[1].mood, Return(body)))
    /\ tpc' = "done"
    /\ UNCHANGED <<variant, request, outbound, clientVars>>

\* fetch (or reading the body) rejects
FetchFails(message) ==
    /\ tpc = "fetching"
    /\ reply' = Some(Throw(message))
    /\ outcome' = Some(IF variant = "unclamped"
                       THEN UnclampedHandler(request[1].mood, Throw(message))
                       ELSE ClampedHandler(request[1].mood, Throw(message)))
    /\ tpc' = "done"
    /\ UNCHANGED <<variant, request, outbound, clientVars>>

\* the server has answered the call and waits for the next
ToolAnswered ==
    /\ tpc \in {"done", "rejected"}
    /\ tpc' = "idle"
    /\ request' = None
    /\ outbound' = None
    /\ reply' = None
    /\ outcome' = None
    /\ UNCHANGED <<variant, clientVars>>

ToolNext ==
    \/ \E mood \in Moods, count \in Counts : ToolInvoke(mood, count)
    \/ \E body \in Bodies : FetchReturns(body)
    \/ \E message \in FetchErrors : FetchFails(message)
    \/ ToolAnswered

vars == <<clientVars, toolVars>>

\* the client, against a Tool Host that is a black box to it
Init ==
    /\ ClientInit
    /\ variant = "static"
    /\ tpc = "idle"
    /\ request = None
    /\ outbound = None
    /\ reply = None
    /\ outcome = None

Spec == Init /\ [][ClientNext]_vars

\* a Tool Host serving calls, whatever client sends them
ToolHostInit ==
    /\ ToolInit
    /\ argv = <<"node", "build/index.js", <<"server", ".js">>>>
    /\ pc = "main"
    /\ conversationHistory = << >>
    /\ tools = << >>
    /\ transport = None
    /\ rlOpen = FALSE
    /\ pending = << >>
    /\ finalText = << >>
    /\ output = << >>
    /\ log = << >>
    /\ exitCode = None
    /\ thrown = FALSE
    /\ lastRequest = None
    /\ preTrim = << >>
    /\ pushed = 0
    /\ nextCallId = 1
    /\ turns = 0
    /\ reqCount = 0
    /\ toolCount = 0
    /\ named = 0
    /\ reqTotal = 0
    /\ toolTotal = 0
    /\ rlCloseCount = 0
    /\ mcpCloseCount = 0

ToolSpec == ToolHostInit /\ [][ToolNext]_vars


(***************************************************************************)
(* The claims.                                                             *)
(***************************************************************************)
Range(seq) == {seq[i] : i \in DOMAIN seq}
MaxLen == (maxHistoryLength * 2) + 1
Constructed == Len(argv) >= 3 /\ pc # "main"
InTurn == pc \in {"awaitRequest1", "loop", "awaitTool", "awaitRequest2"}
TurnBoundary == pc = "question" /\ turns >= 1
Trimmed == TurnBoundary /\ Len(preTrim) > MaxLen

\* C1: once the client is constructed, the first message of the transcript is
\* the system message of the constructor, and no other message has role system.
C1_SystemMessageFirst ==
    Constructed =>
        /\ Len(conversationHistory) >= 1
        /\ conversationHistory[1] = SystemMessage
        /\ \A i \in 2..Len(conversationHistory) :
                conversationHistory[i].role # "system"

\* C1 happens: a turn that used a tool has ended in a trim.
C1_Witness ==
    /\ Trimmed
    /\ \E i \in DOMAIN conversationHistory : conversationHistory[i].role = "tool"
    /\ conversationHistory[1].role = "system"

\* C2: when a turn has ended, the transcript is what the turn left (its last
\* message is the last one pushed), trimmed: with more than 2M+1 messages, the
\* first of them followed by the last 2M in their order, and unchanged
\* otherwise; so it holds at most 2M+1 messages.
C2_TrimAtTurnEnd ==
    TurnBoundary =>
        /\ preTrim[Len(preTrim)].seq = pushed
        /\ Len(conversationHistory) <= MaxLen
        /\ IF Len(preTrim) > MaxLen
           THEN /\ Len(conversationHistory) = MaxLen
                /\ conversationHistory[1] = preTrim[1]
                /\ \A i \in 1..(2 * maxHistoryLength) :
                        conversationHistory[1 + i] =
                            preTrim[Len(preTrim) - (2 * maxHistoryLength) + i]
           ELSE conversationHistory = preTrim

\* C2 happens: a turn ended with more than 2M+1 messages and was trimmed.
C2_Witness == Trimmed /\ Len(conversationHistory) < Len(preTrim)

\* C3 as stated: in a turn the Tool Host is invoked at most once and at most
\* two completion requests are issued.
C3_OnlyFirstToolCall == toolCount <= 1 /\ reqCount <= 2

\* C3 amended: every tool call the first response names is handled, in order:
\* the Tool Host is invoked once per call and one completion request follows
\* each invocation, so a finished turn whose response named n calls made n
\* invocations and n+1 completion requests.
C3_EveryToolCallHandled ==
    /\ toolCount <= named
    /\ reqCount <= named + 1
    /\ pc = "loop" => toolCount = named - Len(pending) /\ reqCount = toolCount + 1
    /\ TurnBoundary => toolCount = named /\ reqCount = named + 1

\* C3 amended happens: a turn whose response named two tool calls has ended.
C3_Witness == TurnBoundary /\ named = 2 /\ toolCount = 2 /\ reqCount = 3

\* C4: when connecting to the Tool Host failed, the failure was logged, the
\* chat loop was not entered and the process ended with a non-zero status.
C4_ConnectFailureIsFatal ==
    (pc = "exited" /\ "Failed to connect to MCP server" \in Range(log)) =>
        /\ "MCP Client Started!" \notin Range(log)
        /\ ~rlOpen /\ rlCloseCount = 0
        /\ exitCode # Some(0)

\* the step that leaves the prompt for the end of the session
C5_QuitStep ==
    (pc = "question" /\ pc' = "cleanup") =>
        /\ conversationHistory' = conversationHistory
        /\ reqTotal' = reqTotal
        /\ toolTotal' = toolTotal
        /\ lastRequest' = lastRequest
        /\ rlCloseCount' = 1 /\ ~rlOpen'
        /\ mcpCloseCount' = 0
        /\ ~thrown'
\* no quit line is in the transcript; what is closed is closed once, before the exit
C5_QuitState ==
    /\ \A i \in DOMAIN conversationHistory :
            conversationHistory[i].role = "user"
                => conversationHistory[i].content \notin QuitLines
    /\ rlCloseCount <= 1 /\ mcpCloseCount <= 1
    /\ pc = "exited" /\ Len(argv) >= 3 => mcpCloseCount = 1
    /\ pc = "exited" /\ rlCloseCount = 1 => mcpCloseCount = 1 /\ ~rlOpen
    /\ pc # "exited" => exitCode = None
\* C5: a line that is 'quit' in any letter case never starts a turn; the step
\* that leaves the prompt for the end of the session issues no completion
\* request and no tool call and leaves the transcript as it is, and closes the
\* input; the session then closes the connection, each once, before it exits.
C5_QuitEndsSession == []C5_QuitState /\ [][C5_QuitStep]_vars

\* C5 happens: after a turn, 'quit' was read and the process has exited.
C5_Witness ==
    /\ pc = "exited" /\ ~thrown /\ turns >= 1
    /\ rlCloseCount = 1 /\ mcpCloseCount = 1

\* C6 as stated: in a turn with a tool call, once the second completion
\* response is handled nothing is left but trimming.
C6_OneRoundTripThenTrim == (pc = "loop" /\ reqCount >= 2) => pending = << >>

\* where a tool call is, and what the transcript and the request hold there
C6_ToolCallState ==
    LET h == conversationHistory
        n == Len(conversationHistory)
        Recorded(id) == \E i \in DOMAIN h :
                            \/ h[i].tool_call_id = Some(id)
                            \/ \E j \in DOMAIN h[i].tool_calls : h[i].tool_calls[j].id = id
    IN /\ pc = "awaitTool" =>
            /\ toolCount = named - Len(pending) + 1
            /\ reqCount = toolCount
            /\ ~Recorded(Head(pending).id)
       /\ pc = "awaitRequest2" =>
            /\ toolCount = named - Len(pending) + 1
            /\ reqCount = toolCount + 1
            /\ n >= 3
            /\ h[n - 1].role = "assistant" /\ h[n - 1].tool_calls = <<Head(pending)>>
            /\ h[n].role = "tool" /\ h[n].tool_call_id = Some(Head(pending).id)
            /\ h[n - 1].seq = pushed - 1 /\ h[n].seq = pushed
            /\ lastRequest = Some([messages |-> h, tools |-> None])
       /\ (pc = "loop" /\ toolCount >= 1) =>
            \/ h[n].role = "tool"
            \/ /\ h[n].role = "assistant" /\ h[n].tool_calls = << >>
               /\ h[n - 1].role = "tool"
               /\ finalText # << >> /\ finalText[Len(finalText)] = h[n].content
\* the transcript shrinks in a turn only at its end
C6_TrimStep ==
    (InTurn /\ Len(conversationHistory') < Len(conversationHistory))
        => pc = "loop" /\ pending = << >> /\ pc' = "question"
\* a text of the response goes to the transcript and to the output together
C6_AppendStep ==
    (pc = "awaitRequest2" /\ pc' = "loop") =>
        \/ conversationHistory' = conversationHistory /\ finalText' = finalText
        \/ /\ Len(conversationHistory') = Len(conversationHistory) + 1
           /\ Len(finalText') = Len(finalText) + 1
\* C6 amended: for each tool call of the first response, in order: the Tool
\* Host is invoked once, before anything of the call is in the transcript;
\* then the tool-call record and after it the tool result are appended; then a
\* completion request is issued that carries the transcript with both and no
\* tool list; a text of its response is appended to the transcript and to the
\* output; the transcript is trimmed only when no tool call is left.
C6_ToolCallOrder == []C6_ToolCallState /\ [][C6_TrimStep /\ C6_AppendStep]_vars

\* C6 amended happens: the request after the second tool call of a turn is out.
C6_Witness == pc = "awaitRequest2" /\ toolCount = 2 /\ reqCount = 3

\* C10: when a turn has ended, every tool-result message directly follows the
\* tool-call record with its tool call id.
C10_ToolResultFollowsItsCall ==
    TurnBoundary =>
        \A i \in DOMAIN conversationHistory :
            conversationHistory[i].role = "tool" =>
                /\ i > 1
                /\ conversationHistory[i - 1].role = "assistant"
                /\ \E j \in DOMAIN conversationHistory[i - 1].tool_calls :
                        Some(conversationHistory[i - 1].tool_calls[j].id)
                            = conversationHistory[i].tool_call_id

\* the outcome of a finished call to a remote tool whose webhook answered
Answered == tpc = "done" /\ reply # None /\ reply[1].kind = "return"
Sent == outbound # None

\* C7 as stated: what the clamped tool sends is in 1..2, and a call with
\* count 5 is sent on with colorCount 2.
C7_FiveIsSentAsTwo ==
    variant = "clamped" =>
        /\ Sent => outbound[1].colorCount \in 1..2
        /\ (request # None /\ request[1].count = Some(5)) =>
                Sent /\ outbound[1].colorCount = 2

\* C7 amended: what the clamped tool sends is in 1..2: a count outside 1..2
\* is refused by the schema and nothing is sent for it.
C7_ColorCountInRange ==
    variant = "clamped" =>
        /\ Sent => outbound[1].colorCount \in 1..2
        /\ (request # None /\ request[1].count # None
                /\ request[1].count[1] \notin 1..2) => tpc = "rejected" /\ ~Sent
        /\ (request # None /\ request[1].count = None) =>
                Sent /\ outbound[1].colorCount = 1

\* C7 amended happens: the clamped tool has sent the request of a call with count 2.
C7_Witness ==
    /\ variant = "clamped" /\ tpc = "fetching"
    /\ request[1].count = Some(2)
    /\ Sent /\ outbound[1].colorCount = 2

\* C8: when the webhook's answer is no JSON, a remote tool returns a text
\* that contains the answer.
C8_NonJsonIsReturnedRaw ==
    (Answered /\ variant \in {"unclamped", "clamped"}
        /\ ~JSONParse(reply[1].result).ok) =>
            /\ outcome[1].kind = "return"
            /\ Len(outcome[1].result) = 1
            /\ outcome[1].result[1].text.type = "string"
            /\ Includes(outcome[1].result[1].text.str, reply[1].result)

\* C9: every finished call of every variant returned one text item holding a
\* string.
C9_OneTextResult ==
    tpc = "done" =>
        /\ outcome # None
        /\ outcome[1].kind = "return"
        /\ Len(outcome[1].result) = 1
        /\ outcome[1].result[1].type = "text"
        /\ outcome[1].result[1].text.type = "string"

====
